---- MODULE Spec2Model ----
(***************************************************************************)
(* Model of the SSH agent handler of crates/kr/src/agent.rs: the in-memory *)
(* identity registry (Agent.identities), add_identity's parsing of the     *)
(* FIDO2 registration blob, sign_request's lookup, remote authenticate     *)
(* request and DER -> SSH signature conversion.  Byte strings are          *)
(* sequences of integers 0..255; Rust Strings are modelled by their bytes. *)
(***************************************************************************)
EXTENDS Integers, Sequences, FiniteSets, TLC

VARIABLES identities, pc, cur, nreq, last

vars == <<identities, pc, cur, nreq, last>>

(* ------------------------------ bounds ---------------------------------- *)

\* most identities the registry is let grow to
MaxIds == 2

\* most remote requests the client is let send
MaxRequests == 2

(* ------------------------- bytes and integers --------------------------- *)

\* byteorder: write_u32::<BigEndian>(n as u32), for the n below 2^31 that
\* the model's lengths and counters take
write_u32(n) ==
    << (n \div 16777216) % 256, (n \div 65536) % 256, (n \div 256) % 256, n % 256 >>

\* length-prefixed string / bytes: write_u32(len) then write_all(bytes)
write_data(b) == write_u32(Len(b)) \o b

\* std::io::Cursor over a byte vector
Cursor(buf) == [buf |-> buf, pos |-> 0]

Remaining(c) == Len(c.buf) - c.pos

ReadFail(c) == [ok |-> FALSE, val |-> << >>, num |-> 0, cur |-> c]

\* cursor.read_u8()
read_u8(c) ==
    IF Remaining(c) < 1 THEN ReadFail(c)
    ELSE [ok |-> TRUE, val |-> << >>, num |-> c.buf[c.pos + 1],
          cur |-> [c EXCEPT !.pos = c.pos + 1]]

\* cursor.read_u32::<BigEndian>(); a value of 2^31 or more is held as
\* 2^31 - 1, which as a length exceeds every buffer just the same
read_u32(c) ==
    IF Remaining(c) < 4 THEN ReadFail(c)
    ELSE [ok |-> TRUE, val |-> << >>,
          num |-> IF c.buf[c.pos + 1] >= 128 THEN 2147483647
                  ELSE c.buf[c.pos + 1] * 16777216 + c.buf[c.pos + 2] * 65536
                       + c.buf[c.pos + 3] * 256 + c.buf[c.pos + 4],
          cur |-> [c EXCEPT !.pos = c.pos + 4]]

\* util::read_data: a u32 length, then exactly that many bytes
read_data(c) ==
    LET n == read_u32(c)
    IN  IF ~n.ok THEN ReadFail(c)
        ELSE IF Remaining(n.cur) < n.num THEN ReadFail(c)
        ELSE [ok |-> TRUE,
              val |-> SubSeq(c.buf, n.cur.pos + 1, n.cur.pos + n.num),
              num |-> n.num,
              cur |-> [c EXCEPT !.pos = n.cur.pos + n.num]]

\* util::read_string: read_data, the bytes taken as the string
read_string(c) == read_data(c)

(* ------------------------------ key pair -------------------------------- *)

\* SshFido2KeyPair::TYPE_ID, "sk-ecdsa-sha2-nistp256@openssh.com"
TYPE_ID ==
    << 115, 107, 45, 101, 99, 100, 115, 97, 45, 115, 104, 97, 50, 45, 110,
       105, 115, 116, 112, 50, 53, 54, 64, 111, 112, 101, 110, 115, 115, 104,
       46, 99, 111, 109 >>

\* SshFido2KeyPair { application, key_handle, public_key, flags }
SshFido2KeyPair(application, key_handle, public_key, flags) ==
    [application |-> application, key_handle |-> key_handle,
     public_key |-> public_key, flags |-> flags]

\* SshFido2KeyPair::fmt_public_key: algorithm id, EC point, application, flags
fmt_public_key(kp) ==
    write_data(TYPE_ID) \o write_data(kp.public_key)
        \o write_data(kp.application) \o << kp.flags >>

\* KryptonIdentity { id: Identity { key_blob, key_comment }, key_pair }
KryptonIdentity(key_blob, key_pair) ==
    [id |-> [key_blob |-> key_blob, key_comment |-> << >>],
     key_pair |-> key_pair]

(* --------------------------- results of calls --------------------------- *)

NoResult == [status |-> "None", err |-> "", signature |-> << >>, ids |-> << >>]

Success == [NoResult EXCEPT !.status = "Success"]

Failure(e) == [NoResult EXCEPT !.status = "Failure", !.err = e]

IdentitiesResponse(ids) == [NoResult EXCEPT !.status = "Identities", !.ids = ids]

SignResponse(sig) == [NoResult EXCEPT !.status = "SignResponse", !.signature = sig]

(* ------------------------------ identities ------------------------------ *)

\* self.identities.iter().map(|id| id.id.clone()).collect()
ListIdentities(ids) == [i \in 1..Len(ids) |-> ids[i].id]

(* ----------------------------- add_identity ----------------------------- *)

KeyTypeAnySk(key_type) == Len(key_type) >= 2 /\ SubSeq(key_type, 1, 2) = << 115, 107 >>

\* key_type.as_str() != SshFido2KeyPair::TYPE_ID
KeyTypeSupported(key_type) == key_type = TYPE_ID

PushFront(ids, entry) == << entry >> \o ids

\* self.identities.push(entry)
Push(ids, entry) == Append(ids, entry)

AddIdentityEager(ids, key_type, key_blob) ==
    IF ~KeyTypeSupported(key_type)
    THEN [identities |-> ids, result |-> Failure("UnsupportedKeyType")]
    ELSE
    LET c0 == Cursor(key_blob)
        curve_name  == read_string(c0)
        public_key  == read_data(curve_name.cur)
        application == read_string(public_key.cur)
        flags       == read_u8(application.cur)
        key_handle  == read_data(flags.cur)
    IN  IF ~curve_name.ok \/ ~public_key.ok \/ ~application.ok \/ ~flags.ok
        THEN [identities |-> ids, result |-> Failure("MalformedBlob")]
        ELSE LET identity == SshFido2KeyPair(application.val, key_handle.val,
                                             public_key.val, flags.num)
                 pushed == Push(ids, KryptonIdentity(fmt_public_key(identity), identity))
             IN  IF ~key_handle.ok
                 THEN [identities |-> pushed, result |-> Failure("MalformedBlob")]
                 ELSE [identities |-> pushed, result |-> Success]

\* Agent::add_identity as a function of the registry and the arguments:
\* the registry after the call and the value returned
AddIdentity(ids, key_type, key_blob) ==
    IF ~KeyTypeSupported(key_type)
    THEN [identities |-> ids, result |-> Failure("UnsupportedKeyType")]
    ELSE
    LET c0 == Cursor(key_blob)
        curve_name  == read_string(c0)
        public_key  == read_data(curve_name.cur)
        application == read_string(public_key.cur)
        flags       == read_u8(application.cur)
        key_handle  == read_data(flags.cur)
    IN  IF ~curve_name.ok \/ ~public_key.ok \/ ~application.ok
           \/ ~flags.ok \/ ~key_handle.ok
        THEN [identities |-> ids, result |-> Failure("MalformedBlob")]
        ELSE LET identity == SshFido2KeyPair(application.val, key_handle.val,
                                             public_key.val, flags.num)
                 key_blob2 == fmt_public_key(identity)
             IN  [identities |-> Push(ids, KryptonIdentity(key_blob2, identity)),
                  result |-> Success]

(* ------------------------------ DER codec ------------------------------- *)

\* DER identifier and length octets: one tag byte, then a short-form length
\* (below 128) or the long form with one length byte (0x81 nn)
der_intro(c) ==
    LET tag == read_u8(c)
        l0  == read_u8(tag.cur)
        l1  == read_u8(l0.cur)
    IN  IF ~tag.ok \/ ~l0.ok THEN [ok |-> FALSE, tag |-> 0, len |-> 0, cur |-> c]
        ELSE IF l0.num < 128
             THEN [ok |-> TRUE, tag |-> tag.num, len |-> l0.num, cur |-> l0.cur]
        ELSE IF l0.num = 129 /\ l1.ok
             THEN [ok |-> TRUE, tag |-> tag.num, len |-> l1.num, cur |-> l1.cur]
        ELSE [ok |-> FALSE, tag |-> 0, len |-> 0, cur |-> c]

\* one INTEGER element: its content octets, exactly as encoded
der_bytes(c) ==
    LET i == der_intro(c)
    IN  IF ~i.ok \/ i.tag # 2 \/ Remaining(i.cur) < i.len THEN ReadFail(c)
        ELSE [ok |-> TRUE,
              val |-> SubSeq(c.buf, i.cur.pos + 1, i.cur.pos + i.len),
              num |-> i.len,
              cur |-> [c EXCEPT !.pos = i.cur.pos + i.len]]

\* ECDSASign::der_from_bytes: SEQUENCE { r, s }
der_from_bytes(bytes) ==
    LET i == der_intro(Cursor(bytes))
        body == Cursor(SubSeq(bytes, i.cur.pos + 1, i.cur.pos + i.len))
        r == der_bytes(body)
        s == der_bytes(r.cur)
    IN  IF ~i.ok \/ i.tag # 48 \/ Remaining(i.cur) < i.len
        THEN [ok |-> FALSE, r |-> << >>, s |-> << >>]
        ELSE IF ~r.ok \/ ~s.ok THEN [ok |-> FALSE, r |-> << >>, s |-> << >>]
        ELSE [ok |-> TRUE, r |-> r.val, s |-> s.val]

\* the remote authenticator's encoding of ECDSASign { r, s }
der_bytes_of(r, s) ==
    LET body == << 2, Len(r) >> \o r \o << 2, Len(s) >> \o s
    IN  << 48, Len(body) >> \o body

(* ----------------------------- sign_request ----------------------------- *)

\* const SIG_TYPE_ID: &'static str = "sk-ecdsa-sha2-nistp256@openssh.com"
SIG_TYPE_ID ==
    << 115, 107, 45, 101, 99, 100, 115, 97, 45, 115, 104, 97, 50, 45, 110,
       105, 115, 116, 112, 50, 53, 54, 64, 111, 112, 101, 110, 115, 115, 104,
       46, 99, 111, 109 >>

Hello == << 104, 101, 108, 108, 111 >>

\* the challenges the model signs
Data == { << >>, Hello }

\* sodiumoxide::crypto::hash::sha256::hash(data).0.to_vec(), tabulated on Data
sha256(data) ==
    IF data = Hello
    THEN << 44, 242, 77, 186, 95, 176, 163, 14, 38, 232, 59, 42, 197, 185,
            226, 158, 27, 22, 30, 92, 31, 167, 66, 94, 115, 4, 51, 98, 147,
            139, 152, 36 >>
    ELSE << 227, 176, 196, 66, 152, 252, 28, 20, 154, 251, 244, 200, 153,
            111, 185, 36, 39, 174, 65, 228, 100, 155, 147, 76, 164, 149, 153,
            27, 120, 82, 184, 85 >>

Matches(ids, pubkey) == { i \in 1..Len(ids) : ids[i].id.key_blob = pubkey }

MaxOf(S) == CHOOSE i \in S : \A j \in S : j <= i

MinOf(S) == CHOOSE i \in S : \A j \in S : i <= j

FindLast(ids, pubkey) ==
    IF Matches(ids, pubkey) = {} THEN 0 ELSE MaxOf(Matches(ids, pubkey))

FindByRawKey(ids, pubkey) ==
    LET M == { i \in 1..Len(ids) : ids[i].key_pair.public_key = pubkey }
    IN  IF M = {} THEN 0 ELSE MinOf(M)

FindOrFirst(ids, pubkey) ==
    IF Matches(ids, pubkey) # {} THEN MinOf(Matches(ids, pubkey))
    ELSE IF Len(ids) > 0 THEN 1 ELSE 0

\* identities.iter().filter(|id| id.id.key_blob == pubkey).next():
\* the index of the first match, 0 for None
FindByPublicKey(ids, pubkey) ==
    IF Matches(ids, pubkey) = {} THEN 0 ELSE MinOf(Matches(ids, pubkey))

AuthenticateRequestRaw(id, data) ==
    [challenge |-> data,
     rp_id |-> id.key_pair.application,
     extensions |-> "None",
     key_handle |-> id.key_pair.key_handle,
     key_handles |-> "None"]

\* RequestBody::Authenticate(AuthenticateRequest { .. })
AuthenticateRequest(id, data) ==
    [challenge |-> sha256(data),
     rp_id |-> id.key_pair.application,
     extensions |-> "None",
     key_handle |-> id.key_pair.key_handle,
     key_handles |-> "None"]

StripZeros(b) ==
    LET nz == { i \in 1..Len(b) : b[i] # 0 }
    IN  IF nz = {} THEN << >> ELSE SubSeq(b, MinOf(nz), Len(b))

SshSignatureStripped(r, s, counter) ==
    write_data(SIG_TYPE_ID)
        \o write_data(write_data(StripZeros(r)) \o write_data(StripZeros(s)))
        \o << 1 >> \o write_u32(counter)

\* the SSH signature blob written after the DER signature is parsed
SshSignature(r, s, counter) ==
    write_data(SIG_TYPE_ID)
        \o write_data(write_data(r) \o write_data(s))
        \o << 1 >> \o write_u32(counter)

SignRequestEndFlags(flags, resp) ==
    IF ~resp.ok THEN Failure("RemoteSigningFailure")
    ELSE LET asn1_sig == der_from_bytes(resp.signature)
         IN  IF ~asn1_sig.ok THEN Failure("MalformedSignature")
             ELSE SignResponse(
                    write_data(SIG_TYPE_ID)
                      \o write_data(write_data(asn1_sig.r) \o write_data(asn1_sig.s))
                      \o << flags % 256 >> \o write_u32(resp.counter))

\* sign_request after the await: the value returned for the remote's answer
SignRequestEnd(flags, resp) ==
    IF ~resp.ok THEN Failure("RemoteSigningFailure")
    ELSE LET asn1_sig == der_from_bytes(resp.signature)
         IN  IF ~asn1_sig.ok THEN Failure("MalformedSignature")
             ELSE SignResponse(SshSignature(asn1_sig.r, asn1_sig.s, resp.counter))

(* -------------------------------- inputs -------------------------------- *)

Nistp256 == << 110, 105, 115, 116, 112, 50, 53, 54 >>

AppSsh == << 115, 115, 104, 58 >>

\* two key pairs with the same public key, application and flags and
\* different key handles, and a third with everything different
KeyPair1 == SshFido2KeyPair(AppSsh, << 171, 171 >>, << 4, 17 >>, 1)

KeyPair2 == SshFido2KeyPair(AppSsh, << 171, 172 >>, << 4, 17 >>, 1)

KeyPair3 == SshFido2KeyPair(AppSsh \o << 120 >>, << 9 >>, << 4, 18 >>, 5)

\* the registration blob a client sends: curve name, ec_point Q,
\* application, flags, key_handle, reserved
RegistrationBlob(kp, reserved) ==
    write_data(Nistp256) \o write_data(kp.public_key)
        \o write_data(kp.application) \o << kp.flags >>
        \o write_data(kp.key_handle) \o write_data(reserved)

\* the same blob, ending after the key handle
BlobWithoutReserved(kp) ==
    write_data(Nistp256) \o write_data(kp.public_key)
        \o write_data(kp.application) \o << kp.flags >>
        \o write_data(kp.key_handle)

\* where a blob is cut short: inside and at the end of each length prefix
\* and of each field's content
Cuts(blob) == { SubSeq(blob, 1, n) : n \in (0..Len(blob)) \ (5..10) }

\* key_blob arguments: complete blobs, truncations of one of them, blobs
\* with no reserved field, a declared length larger than the buffer
KeyBlobs ==
    Cuts(RegistrationBlob(KeyPair1, << 0 >>))
      \cup { RegistrationBlob(KeyPair2, << >>), RegistrationBlob(KeyPair3, << >>),
             BlobWithoutReserved(KeyPair2), BlobWithoutReserved(KeyPair3),
             << 255, 255, 255, 255, 1 >> }

\* key_type arguments: the supported id, "ssh-rsa", a prefix of the id
KeyTypes ==
    { TYPE_ID, << 115, 115, 104, 45, 114, 115, 97 >>, SubSeq(TYPE_ID, 1, 8) }

\* add_identity calls: the supported type with every blob, the other types
\* with an empty, a truncated and two complete blobs
AddCalls ==
    { << TYPE_ID, b >> : b \in KeyBlobs }
      \cup { << t, b >> : t \in KeyTypes \ { TYPE_ID },
                          b \in { << >>, SubSeq(RegistrationBlob(KeyPair1, << 0 >>), 1, 20),
                                  RegistrationBlob(KeyPair1, << 0 >>),
                                  RegistrationBlob(KeyPair3, << >>) } }

\* pubkey arguments: the blobs of the three key pairs, one of them cut
\* short by a byte, and a raw EC point
PubKeys ==
    { fmt_public_key(KeyPair1), fmt_public_key(KeyPair3),
      SubSeq(fmt_public_key(KeyPair1), 1, Len(fmt_public_key(KeyPair1)) - 1),
      KeyPair1.public_key }

\* flags arguments of sign_request
SignFlags == { 0, 4 }

RemoteOk(sig, counter) == [ok |-> TRUE, signature |-> sig, counter |-> counter]

RemoteErr == [ok |-> FALSE, signature |-> << >>, counter |-> 0]

\* (r, s) pairs the authenticator signs with; the second has leading zeros
SigPairs == { << << 1 >>, << 2 >> >>, << << 0, 200 >>, << 0, 0, 3 >> >> }

Counters == { 7, 16909060 }

\* what send_request(..).await yields: a DER signature with a counter, a
\* signature that is not valid DER, or a transport / service error
Responses ==
    { RemoteOk(der_bytes_of(p[1], p[2]), c) : p \in SigPairs, c \in Counters }
      \cup { RemoteOk(SubSeq(der_bytes_of(<< 1 >>, << 2 >>), 1, n), 7) : n \in {0, 4, 7} }
      \cup { RemoteOk(<< 49, 6, 2, 1, 1, 2, 1, 2 >>, 7),
             RemoteOk(<< 48, 6, 4, 1, 1, 2, 1, 2 >>, 7),
             RemoteErr }

(* --------------------------------- state -------------------------------- *)

NoRequest ==
    [challenge |-> << >>, rp_id |-> << >>, extensions |-> "None",
     key_handle |-> << >>, key_handles |-> "None"]

\* no sign_request is suspended
NoCall ==
    [pubkey |-> << >>, data |-> << >>, flags |-> 0, id |-> 0,
     request |-> NoRequest, pre |-> << >>, nreq_pre |-> 0]

\* the record of the call that returned last, empty while a call is suspended
NoLast ==
    [op |-> "new", key_type |-> << >>, key_blob |-> << >>, pubkey |-> << >>,
     data |-> << >>, flags |-> 0, resp |-> RemoteErr, pre |-> << >>,
     nreq_pre |-> 0, sent |-> << >>, result |-> NoResult]

\* Agent::new: an empty registry
Init ==
    /\ identities = << >>
    /\ pc = "idle"
    /\ cur = NoCall
    /\ nreq = 0
    /\ last = NoLast

\* Agent::identities
Identities ==
    /\ pc = "idle"
    /\ last' = [NoLast EXCEPT !.op = "identities", !.pre = identities,
                              !.nreq_pre = nreq,
                              !.result = IdentitiesResponse(ListIdentities(identities))]
    /\ UNCHANGED <<identities, pc, cur, nreq>>

\* Agent::add_identity
add_identity(key_type, key_blob) ==
    LET out == AddIdentity(identities, key_type, key_blob)
    IN  /\ pc = "idle"
        /\ Len(out.identities) <= MaxIds
        /\ identities' = out.identities
        /\ last' = [NoLast EXCEPT !.op = "add_identity", !.key_type = key_type,
                                  !.key_blob = key_blob, !.pre = identities,
                                  !.nreq_pre = nreq, !.result = out.result]
        /\ UNCHANGED <<pc, cur, nreq>>

\* Agent::sign_request up to the await: the lookup, and for a known key the
\* request handed to client.send_request
sign_request(pubkey, data, flags) ==
    LET i == FindByPublicKey(identities, pubkey)
    IN  /\ pc = "idle"
        /\ IF i = 0
           THEN /\ last' = [NoLast EXCEPT !.op = "sign_request", !.pubkey = pubkey,
                                          !.data = data, !.flags = flags,
                                          !.pre = identities, !.nreq_pre = nreq,
                                          !.result = Failure("UnknownKey")]
                /\ UNCHANGED <<identities, pc, cur, nreq>>
           ELSE /\ nreq < MaxRequests
                /\ nreq' = nreq + 1
                /\ pc' = "awaiting"
                /\ cur' = [pubkey |-> pubkey, data |-> data, flags |-> flags,
                           id |-> i,
                           request |-> AuthenticateRequest(identities[i], data),
                           pre |-> identities, nreq_pre |-> nreq]
                /\ last' = NoLast
                /\ UNCHANGED identities

\* the suspended sign_request resumes with the remote's answer and returns
sign_request_resume(resp) ==
    /\ pc = "awaiting"
    /\ pc' = "idle"
    /\ cur' = NoCall
    /\ last' = [NoLast EXCEPT !.op = "sign_request", !.pubkey = cur.pubkey,
                              !.data = cur.data, !.flags = cur.flags,
                              !.resp = resp, !.pre = cur.pre,
                              !.nreq_pre = cur.nreq_pre,
                              !.sent = << cur.request >>,
                              !.result = SignRequestEnd(cur.flags, resp)]
    /\ UNCHANGED <<identities, nreq>>

\* the suspended sign_request is dropped by its caller and never resumes
sign_request_abandon ==
    /\ pc = "awaiting"
    /\ pc' = "idle"
    /\ cur' = NoCall
    /\ last' = [NoLast EXCEPT !.op = "sign_request_abandoned",
                              !.pubkey = cur.pubkey, !.data = cur.data,
                              !.flags = cur.flags, !.pre = cur.pre,
                              !.nreq_pre = cur.nreq_pre,
                              !.sent = << cur.request >>]
    /\ UNCHANGED <<identities, nreq>>

Next ==
    \/ Identities
    \/ \E call \in AddCalls : add_identity(call[1], call[2])
    \/ \E pubkey \in PubKeys, data \in Data, flags \in SignFlags :
          sign_request(pubkey, data, flags)
    \/ \E resp \in Responses : sign_request_resume(resp)
    \/ sign_request_abandon

Spec == Init /\ [][Next]_vars

\* Agent::sign_request as a function of the registry, the arguments and the
\* remote's answer: the requests sent, the value returned, the registry after
SignOutcome(ids, pubkey, data, flags, resp) ==
    LET i == FindByPublicKey(ids, pubkey)
    IN  IF i = 0
        THEN [sent |-> << >>, result |-> Failure("UnknownKey"), identities |-> ids]
        ELSE [sent |-> << AuthenticateRequest(ids[i], data) >>,
              result |-> SignRequestEnd(flags, resp),
              identities |-> ids]

(* ------------------------------ properties ------------------------------ *)

Registered(ids, pubkey) == \E i \in 1..Len(ids) : ids[i].id.key_blob = pubkey

\* the first entry of ids whose listed blob is pubkey
FirstMatch(ids, pubkey) ==
    CHOOSE i \in 1..Len(ids) :
        /\ ids[i].id.key_blob = pubkey
        /\ \A j \in 1..(i - 1) : ids[j].id.key_blob # pubkey

SignReturned == last.op = "sign_request"

SignEnded == last.op \in { "sign_request", "sign_request_abandoned" }

\* C1: a sign_request whose pubkey equals the key blob of no registered
\* identity returns UnknownKey and sends nothing to the remote service: the
\* count of remote requests after the call is the count before it, and a
\* call that is awaiting the remote is always one for a registered key.
C1_UnknownKeyNoRemote ==
    /\ (SignReturned /\ ~Registered(last.pre, last.pubkey))
          => /\ last.result = Failure("UnknownKey")
             /\ last.sent = << >>
             /\ nreq = last.nreq_pre
    /\ pc = "awaiting" => Registered(cur.pre, cur.pubkey)

C1_Witness ==
    /\ SignReturned
    /\ Len(last.pre) > 0
    /\ ~Registered(last.pre, last.pubkey)
    /\ last.result.err = "UnknownKey"

\* C2: add_identity with a key_type other than the supported identifier
\* returns UnsupportedKeyType whatever the blob, and the registry after the
\* call is the registry before it.
C2_UnsupportedKeyType ==
    (last.op = "add_identity" /\ last.key_type # SIG_TYPE_ID)
        => /\ last.result = Failure("UnsupportedKeyType")
           /\ identities = last.pre

C2_Witness ==
    /\ last.op = "add_identity"
    /\ last.key_type = SubSeq(SIG_TYPE_ID, 1, 8)
    /\ last.key_blob = RegistrationBlob(KeyPair1, << 0 >>)
    /\ Len(last.pre) > 0
    /\ last.result.err = "UnsupportedKeyType"

\* the key pair a complete registration blob was made from
BlobOf(kp) == { RegistrationBlob(kp, << >>), RegistrationBlob(kp, << 0 >>) }

\* C3: a successful add_identity makes the listing one entry longer, the
\* new identity (the public key blob of the key pair registered, with an
\* empty comment) is its last entry, and the entries listed before are
\* still listed first, unchanged and in the same order.
C3_AppendsLast ==
    (last.op = "add_identity" /\ last.result.status = "Success")
        => LET before == ListIdentities(last.pre)
               after  == ListIdentities(identities)
           IN  /\ Len(after) = Len(before) + 1
               /\ SubSeq(after, 1, Len(before)) = before
               /\ \A kp \in { KeyPair1, KeyPair2, KeyPair3 } :
                     last.key_blob \in BlobOf(kp)
                        => after[Len(after)] =
                              [key_blob |-> fmt_public_key(kp), key_comment |-> << >>]

C3_Witness ==
    /\ last.op = "add_identity"
    /\ last.result.status = "Success"
    /\ last.key_blob \in BlobOf(KeyPair3)
    /\ Len(last.pre) > 0
    /\ last.pre[1].key_pair = KeyPair1

\* C4: a call that fails leaves the registry as it was before the call
\* (add_identity failing at any step, sign_request failing with UnknownKey,
\* a remote failure or a malformed DER signature), and so does a
\* sign_request that succeeds, is awaiting the remote, or was abandoned.
C4_FailedCallsKeepRegistry ==
    /\ (last.op \in { "add_identity", "sign_request" } /\ last.result.status = "Failure")
          => identities = last.pre
    /\ SignEnded => identities = last.pre
    /\ pc = "awaiting" => identities = cur.pre

C4_Witness ==
    /\ last.op = "add_identity"
    /\ last.result.err = "MalformedBlob"
    /\ Len(last.pre) > 0
    /\ Len(last.key_blob) > Len(BlobWithoutReserved(KeyPair1)) - 6

\* decode_registration_blob of the specification: all six fields complete
SixFieldsComplete(blob) ==
    LET curve_name  == read_string(Cursor(blob))
        public_key  == read_data(curve_name.cur)
        application == read_string(public_key.cur)
        flags       == read_u8(application.cur)
        key_handle  == read_data(flags.cur)
        reserved    == read_data(key_handle.cur)
    IN  /\ curve_name.ok /\ public_key.ok /\ application.ok
        /\ flags.ok /\ key_handle.ok /\ reserved.ok

\* C5: add_identity with the supported key type fails with MalformedBlob
\* and registers nothing whenever the blob ends before any of its six
\* fields (curve name, EC point, application, flags byte, key handle,
\* reserved) is complete.
C5_TruncatedBlobRejected ==
    (last.op = "add_identity" /\ last.key_type = SIG_TYPE_ID
        /\ ~SixFieldsComplete(last.key_blob))
        => /\ last.result = Failure("MalformedBlob")
           /\ identities = last.pre

\* the four big-endian bytes of the counters the remote answers with
CounterBytes(c) == IF c = 7 THEN << 0, 0, 0, 7 >> ELSE << 1, 2, 3, 4 >>

\* C6: when the remote answers a sign_request with the DER encoding of
\* (r, s) and counter c, the signature returned is the length-prefixed
\* algorithm id, the length-prefixed inner blob of length-prefixed r and
\* length-prefixed s with r and s byte for byte as encoded, the byte 0x01
\* whatever flags were registered, and c as four big-endian bytes.
C6_SignatureWireFormat ==
    \A p \in SigPairs, c \in Counters :
        (SignReturned /\ last.resp = RemoteOk(der_bytes_of(p[1], p[2]), c))
            => /\ last.result.status = "SignResponse"
               /\ last.result.signature =
                      << 0, 0, 0, 34 >> \o SIG_TYPE_ID
                        \o << 0, 0, 0, 8 + Len(p[1]) + Len(p[2]) >>
                        \o << 0, 0, 0, Len(p[1]) >> \o p[1]
                        \o << 0, 0, 0, Len(p[2]) >> \o p[2]
                        \o << 1 >> \o CounterBytes(c)

C6_Witness ==
    /\ SignReturned
    /\ last.pubkey = fmt_public_key(KeyPair3)
    /\ last.resp = RemoteOk(der_bytes_of(<< 0, 200 >>, << 0, 0, 3 >>), 16909060)
    /\ last.result.status = "SignResponse"

\* C7: a sign_request on a registered key sends exactly one request to the
\* remote service, with the 32-byte SHA-256 of data as challenge and the
\* application and key handle of the entry that matched, as registered; a
\* remote failure is returned as it is, with no second request.
C7_OneRemoteRequest ==
    /\ (SignEnded /\ Registered(last.pre, last.pubkey))
          => LET id == last.pre[FirstMatch(last.pre, last.pubkey)]
             IN  /\ Len(last.sent) = 1
                 /\ nreq = last.nreq_pre + 1
                 /\ Len(last.sent[1].challenge) = 32
                 /\ last.sent[1].challenge = sha256(last.data)
                 /\ last.sent[1].rp_id = id.key_pair.application
                 /\ last.sent[1].key_handle = id.key_pair.key_handle
    /\ (SignReturned /\ Registered(last.pre, last.pubkey) /\ ~last.resp.ok)
          => last.result = Failure("RemoteSigningFailure")
    /\ pc = "awaiting" => nreq = cur.nreq_pre + 1

C7_Witness ==
    /\ SignReturned
    /\ ~last.resp.ok
    /\ Len(last.sent) = 1
    /\ last.data = Hello
    /\ last.nreq_pre = 1
    /\ nreq = 2

\* C8: registration does not deduplicate: add_identity of a complete blob
\* whose public key blob is already registered succeeds and appends a second
\* entry; a sign_request for a blob several entries share uses the
\* application and key handle of the entry registered first.
C8_NoDedupFirstWins ==
    /\ \A kp \in { KeyPair1, KeyPair2, KeyPair3 } :
          (last.op = "add_identity" /\ last.key_type = SIG_TYPE_ID
              /\ last.key_blob \in BlobOf(kp)
              /\ Registered(last.pre, fmt_public_key(kp)))
              => /\ last.result = Success
                 /\ Len(identities) = Len(last.pre) + 1
                 /\ identities[Len(identities)].key_pair = kp
    /\ \A i, j \in 1..Len(last.pre) :
          (SignEnded /\ i < j
              /\ last.pre[i].id.key_blob = last.pubkey
              /\ last.pre[j].id.key_blob = last.pubkey
              /\ \A k \in 1..(i - 1) : last.pre[k].id.key_blob # last.pubkey)
              => /\ last.sent # << >>
                 /\ last.sent[1].key_handle = last.pre[i].key_pair.key_handle
                 /\ last.sent[1].rp_id = last.pre[i].key_pair.application

C8_Witness ==
    /\ SignReturned
    /\ Len(last.pre) = 2
    /\ last.pre[1].key_pair = KeyPair2
    /\ last.pre[2].key_pair = KeyPair1
    /\ last.pubkey = fmt_public_key(KeyPair1)
    /\ last.sent # << >>
    /\ last.sent[1].key_handle = KeyPair2.key_handle

\* C9: the flags argument of sign_request has no effect: the request sent,
\* the value returned and the registry left by a call are those of the same
\* call (same registry, pubkey, data, remote answer) made with any other
\* flags.
C9_FlagsIgnored ==
    SignReturned
        => \A f \in SignFlags :
              [sent |-> last.sent, result |-> last.result, identities |-> identities]
                  = SignOutcome(last.pre, last.pubkey, last.data, f, last.resp)

C9_Witness ==
    /\ SignReturned
    /\ last.flags = 4
    /\ last.result.status = "SignResponse"

\* C10: every identity listed is signable: a sign_request whose pubkey is
\* the key blob of a listed entry does not fail with UnknownKey and reaches
\* the remote service; identities() returns the listing, never fails and
\* changes nothing.
C10_ListedIsSignable ==
    /\ \A i \in 1..Len(identities) :
          FindByPublicKey(identities, ListIdentities(identities)[i].key_blob) # 0
    /\ \A i \in 1..Len(last.pre) :
          (SignEnded /\ last.pubkey = ListIdentities(last.pre)[i].key_blob)
              => /\ last.result.err # "UnknownKey"
                 /\ Len(last.sent) = 1
    /\ last.op = "identities"
          => /\ last.result = IdentitiesResponse(ListIdentities(last.pre))
             /\ identities = last.pre
             /\ nreq = last.nreq_pre

C10_Witness ==
    /\ SignReturned
    /\ Len(last.pre) = 2
    /\ last.pubkey = ListIdentities(last.pre)[2].key_blob
    /\ last.pre[1].key_pair = KeyPair1
    /\ last.pre[2].key_pair = KeyPair3
    /\ last.result.status = "SignResponse"

====
